---- MODULE Spec2Model ----
(***************************************************************************)
(* Model of the summarization fine-tuning example:                         *)
(*   zzz/examples/summarization_finetune/pipeline.py                       *)
(*   zzz/examples/summarization_finetune/train_eval.py                     *)
(*                                                                         *)
(* The module's functions are modelled as a state machine with four entry  *)
(* points: the whole pipeline (pipeline.pipeline), a direct call of        *)
(* train_eval.evaluate, of train_eval.extract_prompt and of                *)
(* train_eval._seq_2_seq_preprocess_function.  Python strings are TLA+     *)
(* strings, used through Len, SubSeq and \o.  An Optional[int] is the      *)
(* empty sequence (None) or a one-element sequence.  A raised exception    *)
(* ends the run in pc = "raised" with its kind in error.                   *)
(***************************************************************************)
EXTENDS Integers, Sequences, FiniteSets, TLC

VARIABLES
    entry,          \* which function the caller invoked
    pc,             \* position in the running function
    error,          \* kind of the exception that ended the run, "" if none
    selection,      \* training_config.model_selection
    picked,         \* what pick_model returned: [owner, repo, model_type]
    tokenizer,      \* the tokenizer object: [pad_token]
    config,         \* dataset_config: [max_train_samples, max_test_samples]
    loaded,         \* what load_dataset returns: split name -> examples
    dataset,        \* prepare_data's local `dataset`
    resolved,       \* `dataset` as it was when split resolution finished
    prepared,       \* what prepare_data returned: [train, validation] rows
    use_cache,      \* model.config.use_cache of the loaded base model
    saver_model,    \* SftPeftCallback.model
    save_events,    \* the models the trainer passed to its save events
    train_return,   \* the value train_eval.train returned
    stored,         \* the StoredModel pipeline.train returned
    model,          \* the local / argument `model` of train and evaluate
    model_type,     \* evaluate's model_type argument
    eval_dataset,   \* evaluate's eval_dataset: rows of input_ids
    row_index,      \* evaluate's loop index: the rows taken so far
    results,        \* evaluate's local `results`
    eval_return,    \* the EvaluationResults evaluate returned
    failed_at,      \* index of the row whose generate call raised, -1 if none
    text,           \* extract_prompt's argument
    prompt,         \* extract_prompt's return value
    pad_token_id,   \* tokenizer.pad_token_id
    batch,          \* _seq_2_seq_preprocess_function's tokenized targets
    model_inputs    \* _seq_2_seq_preprocess_function's return value

ctlVars == <<entry, pc, error>>
pickVars == <<selection, picked, tokenizer>>
dataVars == <<config, loaded, dataset, resolved, prepared>>
trainVars == <<use_cache, saver_model, save_events, train_return, stored, model>>
evalVars == <<model_type, eval_dataset, row_index, results, eval_return, failed_at>>
pureVars == <<text, prompt, pad_token_id, batch, model_inputs>>
vars == <<ctlVars, pickVars, dataVars, trainVars, evalVars, pureVars>>

(***************************************************************************)
(* Bounds of the model.                                                    *)
(***************************************************************************)
MaxTrain == 3       \* largest "train" split load_dataset returns
MaxSplit == 2       \* largest "test" / "validation" split it returns
MaxCap == 2         \* largest max_train_samples / max_test_samples
MaxSaves == 2       \* most save events in one training run
MaxEval == 2        \* most rows of evaluate's eval_dataset
MaxBatch == 2       \* most targets in one preprocessing batch
MaxOutputLength == 2 \* dataset_config.max_output_length
MaxSegments == 3    \* most segments an extract_prompt argument is built of
MaxTokenId == 1     \* largest token id of the tokenizer's vocabulary

(***************************************************************************)
(* Python values.                                                          *)
(***************************************************************************)
None == <<>>
Some(n) == <<n>>
IsNone(o) == o = <<>>
Val(o) == o[1]
NoModel == "None"
Min(a, b) == IF a <= b THEN a ELSE b
Take(s, n) == SubSeq(s, 1, Min(n, Len(s)))
Range(s) == {s[i] : i \in 1..Len(s)}

\* str.startswith
StartsWith(s, p) == Len(s) >= Len(p) /\ SubSeq(s, 1, Len(p)) = p

\* The 0-based positions at which sub occurs in s.
Occurrences(s, sub) ==
    {i \in 0..(Len(s) - Len(sub)) : SubSeq(s, i + 1, i + Len(sub)) = sub}

\* `sub in s`
Contains(s, sub) == Occurrences(s, sub) # {}

\* str.find: the lowest position, -1 when there is none.
Find(s, sub) ==
    IF Occurrences(s, sub) = {} THEN -1
    ELSE CHOOSE i \in Occurrences(s, sub) : \A j \in Occurrences(s, sub) : i <= j

\* str.index: as str.find, but raises ValueError when there is none.
Index(s, sub) ==
    IF Occurrences(s, sub) = {} THEN [raised |-> "ValueError", value |-> -1]
    ELSE [raised |-> "", value |-> Find(s, sub)]

\* str.replace(old, new), old non-empty: leftmost non-overlapping occurrences.
RECURSIVE Replace(_, _, _)
Replace(s, old, new) ==
    IF Len(s) < Len(old) THEN s
    ELSE IF StartsWith(s, old)
         THEN new \o Replace(SubSeq(s, Len(old) + 1, Len(s)), old, new)
         ELSE SubSeq(s, 1, 1) \o Replace(SubSeq(s, 2, Len(s)), old, new)

(***************************************************************************)
(* train_eval.py: the model registry.                                      *)
(***************************************************************************)
_SUMMARY_START_INDICATOR == "**Summary**: "

ModelType == {"seq_to_seq", "causal"}

ModelSelection ==
    {"flan_small", "flan_base", "flan_large", "flan_xl", "flan_xxl", "gpt_j_6b"}

_FLAN_PROPS ==
    [model_type |-> "seq_to_seq", pad_token |-> "None",
     load_in_8bit |-> FALSE, device_map |-> "auto"]

_GPTJ_PROPS ==
    [model_type |-> "causal", pad_token |-> "eos_token",
     load_in_8bit |-> TRUE, device_map |-> "None"]

\* A registry whose gpt_j_6b entry was copied from a flan entry.
_MODEL_PROPERTIES_GptjAsFlan ==
    [m \in ModelSelection |-> _FLAN_PROPS]

_MODEL_PROPERTIES ==
    ("flan_small" :> _FLAN_PROPS) @@ ("flan_base" :> _FLAN_PROPS) @@
    ("flan_large" :> _FLAN_PROPS) @@ ("flan_xl" :> _FLAN_PROPS) @@
    ("flan_xxl" :> _FLAN_PROPS) @@ ("gpt_j_6b" :> _GPTJ_PROPS)

\* HuggingFaceModelReference.to_string / from_string: "owner/repo".
to_string(ref) == ref.owner \o "/" \o ref.repo

from_string(name) ==
    [owner |-> SubSeq(name, 1, Find(name, "/")),
     repo |-> SubSeq(name, Find(name, "/") + 2, Len(name))]

\* ModelSelection.from_model_reference: the member's name; "" stands for the
\* KeyError of the enum lookup.
from_model_reference(ref) ==
    LET name == IF Contains(ref.repo, "flan")
                THEN Replace(ref.repo, "flan-t5-", "flan_")
                ELSE Replace(ref.repo, "-", "_")
    IN  IF name \in ModelSelection THEN name ELSE ""

\* The _MODEL_PROPERTIES[...from_model_reference(...from_string(model_name))]
\* lookup of load_model, load_tokenizer and train.
PropertiesOf(model_name) ==
    LET m == from_model_reference(from_string(model_name))
    IN  IF m \in DOMAIN _MODEL_PROPERTIES
        THEN [raised |-> "", props |-> _MODEL_PROPERTIES[m]]
        ELSE [raised |-> "KeyError", props |-> _FLAN_PROPS]

(***************************************************************************)
(* pipeline.py: pick_model.                                                *)
(***************************************************************************)
pick_model(m) ==
    IF StartsWith(m, "flan")
    THEN [owner |-> "google",
          repo |-> "flan-t5-" \o Replace(m, "flan_", ""),
          model_type |-> "seq_to_seq"]
    ELSE [owner |-> "tiiuae",
          repo |-> Replace(m, "_", "-"),
          model_type |-> "causal"]

(***************************************************************************)
(* train_eval.py: prepare_data.  An example is <<split, i>>: the i-th      *)
(* example of the split load_dataset returned it in.  A dataset dictionary *)
(* is a function from split names to sequences of examples.                *)
(***************************************************************************)
SplitNames == {"train", "validation", "test"}

SplitOf(name, n) == [i \in 1..n |-> <<name, i>>]

SplitsOf(name) ==
    IF name = "train" THEN {SplitOf(name, n) : n \in 0..MaxTrain}
    ELSE {SplitOf(name, n) : n \in 1..MaxSplit}

\* What load_dataset may return.
LoadedDatasets ==
    UNION {{d \in [S -> UNION {SplitsOf(k) : k \in S}] :
                \A k \in S : d[k] \in SplitsOf(k)} : S \in SUBSET SplitNames}

Caps == {None} \cup {Some(n) : n \in 0..MaxCap}

DatasetConfigs == [max_train_samples : Caps, max_test_samples : Caps]

Ceil(a, b) == (a + b - 1) \div b

Permutations1(n) == {p \in [1..n -> 1..n] : \A i, j \in 1..n : p[i] = p[j] => i = j}

\* Lines 234-241: test_size as the fraction num/den; the division raises
\* ZeroDivisionError when both caps are 0.
TestSize(cfg) ==
    IF ~IsNone(cfg.max_train_samples) /\ ~IsNone(cfg.max_test_samples)
    THEN IF Val(cfg.max_test_samples) + Val(cfg.max_train_samples) = 0
         THEN [raised |-> "ZeroDivisionError", num |-> 0, den |-> 1]
         ELSE [raised |-> "", num |-> Val(cfg.max_test_samples),
               den |-> Val(cfg.max_test_samples) + Val(cfg.max_train_samples)]
    ELSE [raised |-> "", num |-> 1, den |-> 10]

\* Dataset.train_test_split(test_size=num/den, seed=42), shuffling: the
\* outcomes over every permutation the seeded shuffle may be.  A test_size
\* outside (0, 1) and an empty train part raise ValueError.
train_test_split(ds, num, den) ==
    LET n == Len(ds)
        n_test == Ceil(num * n, den)
        n_train == n - n_test
    IN  IF num <= 0 \/ num >= den \/ n_train <= 0
        THEN {[raised |-> "ValueError", ds |-> << >>]}
        ELSE {[raised |-> "",
               ds |-> ("test" :> [i \in 1..n_test |-> ds[p[i]]]) @@
                      ("train" :> [i \in 1..n_train |-> ds[p[n_test + i]]])] :
                p \in Permutations1(n)}

\* The rename without line 247's `del dataset["test"]`.
RenameTest_KeepTest(d) ==
    IF "test" \in DOMAIN d
    THEN [k \in DOMAIN d \cup {"validation"} |->
            IF k = "validation" THEN d["test"] ELSE d[k]]
    ELSE d

\* Lines 245-247: rename "test" to "validation".
RenameTest(d) ==
    IF "test" \in DOMAIN d
    THEN [k \in (DOMAIN d \ {"test"}) \cup {"validation"} |->
            IF k = "validation" THEN d["test"] ELSE d[k]]
    ELSE d

\* Lines 232-247: the outcomes of split resolution.
SplitResolution(d, cfg) ==
    IF "validation" \in DOMAIN d THEN {[raised |-> "", ds |-> d]}
    ELSE IF "test" \in DOMAIN d THEN {[raised |-> "", ds |-> RenameTest(d)]}
    ELSE IF TestSize(cfg).raised # ""
         THEN {[raised |-> TestSize(cfg).raised, ds |-> d]}
    ELSE IF "train" \notin DOMAIN d THEN {[raised |-> "KeyError", ds |-> d]}
    ELSE {[raised |-> o.raised,
           ds |-> IF o.raised = "" THEN RenameTest(o.ds) ELSE d] :
            o \in train_test_split(d["train"], TestSize(cfg).num, TestSize(cfg).den)}

\* Dataset.select(range(cap)): an empty dataset is returned as it is, an
\* index past the end raises IndexError.
Select(ds, cap) ==
    IF Len(ds) = 0 THEN [raised |-> "", ds |-> ds]
    ELSE IF cap > Len(ds) THEN [raised |-> "IndexError", ds |-> ds]
    ELSE [raised |-> "", ds |-> SubSeq(ds, 1, cap)]

\* Lines 249-252 and 253-256: dataset[name] = dataset[name].select(range(cap)).
Truncate(d, name, cap) ==
    IF IsNone(cap) THEN [raised |-> "", ds |-> d]
    ELSE IF name \notin DOMAIN d THEN [raised |-> "KeyError", ds |-> d]
    ELSE IF Select(d[name], Val(cap)).raised # ""
         THEN [raised |-> Select(d[name], Val(cap)).raised, ds |-> d]
    ELSE [raised |-> "", ds |-> [d EXCEPT ![name] = Select(d[name], Val(cap)).ds]]

\* Lines 258-274: dataset.map(preprocessor, remove_columns=...): one row per
\* example, in order, holding the columns of the family's layout.
Columns(family) ==
    IF family = "seq_to_seq" THEN {"input_ids", "attention_mask", "labels"}
    ELSE {"text"}

MapRows(ds, family) ==
    [i \in 1..Len(ds) |-> [example |-> ds[i], columns |-> Columns(family)]]

(***************************************************************************)
(* train_eval.py: train.  A model object is named by a string: "base" is   *)
(* what load_model returned, "peft(base)" what get_peft_model made of it.  *)
(***************************************************************************)
get_peft_model(base) == "peft(" \o base \o ")"

\* The adapter-wrapped models an SFTTrainer hands to its save events.
SaveEventModels == {"peft_a", "peft_b"}

\* SftPeftCallback.__init__
SftPeftCallback_init == NoModel

\* A callback that keeps its first capture.
on_save_KeepFirst(self_model, kwargs_model) ==
    IF self_model = NoModel THEN kwargs_model ELSE self_model

\* SftPeftCallback.on_save: self.model = kwargs["model"]
on_save(self_model, kwargs_model) == kwargs_model

\* Lines 292-293 / 309: the model object the trainer is built around, as
\* the local `model` holds it.
TrainerModel(family, loaded_model) ==
    IF family = "causal" THEN loaded_model ELSE get_peft_model(loaded_model)

\* A train that leaves use_cache as the loaded configuration has it.
UseCacheForTraining_Unset(before) == before

\* Lines 305 / 317: model.config.use_cache = False, before trainer.train().
UseCacheForTraining(before) == FALSE

\* Lines 307 / 320: the value train returns once trainer.train() returned.
TrainResult(family, trainer_model, saver) ==
    IF family = "causal" THEN saver ELSE trainer_model

(***************************************************************************)
(* train_eval.py: evaluate, extract_prompt, sanitize.                      *)
(***************************************************************************)
sanitize(string) == Replace(string, "NaN", "?")

extract_prompt(t) ==
    LET summary_start_start == Index(t, _SUMMARY_START_INDICATOR)
    IN  IF summary_start_start.raised # ""
        THEN [raised |-> summary_start_start.raised, value |-> ""]
        ELSE IF summary_start_start.value < 0
        THEN [raised |-> "", value |-> t \o " " \o _SUMMARY_START_INDICATOR]
        ELSE [raised |-> "",
              value |-> SubSeq(t, 1, summary_start_start.value
                                        + Len(_SUMMARY_START_INDICATOR))]

\* def evaluate(model, eval_dataset, tokenizer, model_type)
evaluate_parameters == <<"model", "eval_dataset", "tokenizer", "model_type">>

\* pipeline.py line 86: evaluate(model.load(), eval_data, tokenizer)
eval_arguments == <<"model.load()", "eval_data", "tokenizer">>

\* Binding positional arguments to required parameters.
Bind(parameters, arguments) ==
    IF Len(arguments) = Len(parameters) THEN "" ELSE "TypeError"

\* Lines 352-357: eval_dataset.map(extract_prompt, batched=True) calls
\* extract_prompt on each batch, a mapping of columns, which has no index
\* method; an empty dataset has no batch.
MapExtractPrompt(ds) == IF Len(ds) = 0 THEN "" ELSE "AttributeError"

\* tokenizer.batch_decode of a row's input ids: the prompt of its example.
PromptText(row) == "article " \o ToString(row.example[2]) \o " NaN"

\* What model.generate followed by batch_decode may yield.
GeneratedTexts == {"summary", "NaN"}

PromptResponse(input_text, output_text) ==
    [prompt |-> sanitize(input_text), response |-> sanitize(output_text)]

\* Line 340: model.config.use_cache = True.
UseCacheForGeneration(before) == TRUE

(***************************************************************************)
(* train_eval.py: _seq_2_seq_preprocess_function.  The tokenizer's output  *)
(* for the targets is a batch of id rows of length max_output_length.      *)
(***************************************************************************)
TokenIds == 0..MaxTokenId

IgnoreIndex == -100

\* Masking id 0 whatever the tokenizer's pad id is.
MaskRow_PadZero(row, pad_id) ==
    [i \in 1..Len(row) |-> IF row[i] = 0 THEN IgnoreIndex ELSE row[i]]

\* Line 218: labels[labels == tokenizer.pad_token_id] = -100
MaskRow(row, pad_id) ==
    [i \in 1..Len(row) |-> IF row[i] = pad_id THEN IgnoreIndex ELSE row[i]]

MaskLabels(labels, pad_id) ==
    [r \in 1..Len(labels) |-> MaskRow(labels[r], pad_id)]

TokenRows == [1..MaxOutputLength -> TokenIds]

TokenBatches == UNION {[1..n -> TokenRows] : n \in 0..MaxBatch}

(***************************************************************************)
(* Inputs.                                                                 *)
(***************************************************************************)
Segments == {"a", " ", "**Summary**:", _SUMMARY_START_INDICATOR}

RECURSIVE TextsOf(_)
TextsOf(n) ==
    IF n = 0 THEN {""}
    ELSE TextsOf(n - 1) \cup {t \o g : t \in TextsOf(n - 1), g \in Segments}

Texts == TextsOf(MaxSegments)

\* The validation rows a caller may hand to evaluate: distinct examples of
\* a validation split, in any order.
EvalExamples == {<<"validation", k>> : k \in 1..MaxEval}

EvalDatasets(family) ==
    {MapRows(ds, family) :
        ds \in {q \in UNION {[1..n -> EvalExamples] : n \in 0..MaxEval} :
                    \A i, j \in 1..Len(q) : q[i] = q[j] => i = j}}

NoReference == [owner |-> "", repo |-> "", model_type |-> ""]
NoPrepared == [train |-> << >>, validation |-> << >>]
NoConfig == [max_train_samples |-> None, max_test_samples |-> None]

InitPick ==
    /\ selection = ""
    /\ picked = NoReference
    /\ tokenizer = [pad_token |-> ""]

InitData ==
    /\ config = NoConfig
    /\ loaded = << >>
    /\ dataset = << >>
    /\ resolved = << >>
    /\ prepared = NoPrepared

InitTrain ==
    /\ use_cache = TRUE
    /\ saver_model = NoModel
    /\ save_events = << >>
    /\ train_return = NoModel
    /\ stored = NoModel
    /\ model = NoModel

InitEval ==
    /\ model_type = ""
    /\ eval_dataset = << >>
    /\ row_index = 0
    /\ results = << >>
    /\ eval_return = [returned |-> FALSE, continuations |-> << >>]
    /\ failed_at = -1

InitPure ==
    /\ text = ""
    /\ prompt = ""
    /\ pad_token_id = 0
    /\ batch = << >>
    /\ model_inputs = [labels |-> << >>]

\* pipeline(training_config, dataset_config, export_reference)
InitPipeline ==
    /\ entry = "pipeline" /\ pc = "pick_model" /\ error = ""
    /\ selection \in ModelSelection
    /\ picked = NoReference
    /\ tokenizer = [pad_token |-> ""]
    /\ config \in DatasetConfigs
    /\ loaded \in LoadedDatasets
    /\ dataset = << >> /\ resolved = << >> /\ prepared = NoPrepared
    /\ InitTrain /\ InitEval /\ InitPure

\* evaluate(model, eval_dataset, tokenizer, model_type)
InitEvaluate ==
    /\ entry = "evaluate" /\ pc = "evaluate" /\ error = ""
    /\ InitPick /\ InitData /\ InitPure
    /\ use_cache \in BOOLEAN
    /\ saver_model = NoModel /\ save_events = << >>
    /\ train_return = NoModel /\ stored = NoModel
    /\ model = get_peft_model("base")
    /\ model_type \in ModelType
    /\ eval_dataset \in EvalDatasets(model_type)
    /\ row_index = 0
    /\ results = << >>
    /\ eval_return = [returned |-> FALSE, continuations |-> << >>]
    /\ failed_at = -1

\* extract_prompt(text)
InitExtractPrompt ==
    /\ entry = "extract_prompt" /\ pc = "extract_prompt" /\ error = ""
    /\ InitPick /\ InitData /\ InitTrain /\ InitEval
    /\ text \in Texts
    /\ prompt = "" /\ pad_token_id = 0 /\ batch = << >>
    /\ model_inputs = [labels |-> << >>]

\* _seq_2_seq_preprocess_function(examples, tokenizer, dataset_config)
InitPreprocess ==
    /\ entry = "seq_2_seq_preprocess" /\ pc = "preprocess" /\ error = ""
    /\ InitPick /\ InitData /\ InitTrain /\ InitEval
    /\ text = "" /\ prompt = ""
    /\ pad_token_id \in TokenIds
    /\ batch \in TokenBatches
    /\ model_inputs = [labels |-> << >>]

Init == InitPipeline \/ InitEvaluate \/ InitExtractPrompt \/ InitPreprocess

Raise(kind) == pc' = "raised" /\ error' = kind /\ entry' = entry
Goto(next) == pc' = next /\ error' = error /\ entry' = entry

(***************************************************************************)
(* pipeline.py: pipeline, up to the prepared datasets.                     *)
(***************************************************************************)
\* Line 128: pick_model(training_config.model_selection)
PickModel ==
    /\ pc = "pick_model"
    /\ picked' = pick_model(selection)
    /\ Goto("load_tokenizer")
    /\ UNCHANGED <<selection, tokenizer, dataVars, trainVars, evalVars, pureVars>>

\* Line 129 and train_eval.py lines 172-179: load_tokenizer
LoadTokenizer ==
    /\ pc = "load_tokenizer"
    /\ LET p == PropertiesOf(to_string(picked))
       IN  IF p.raised # ""
           THEN Raise(p.raised) /\ UNCHANGED tokenizer
           ELSE /\ tokenizer' = [pad_token |->
                        IF p.props.pad_token # "None" THEN p.props.pad_token
                        ELSE "pad_token"]
                /\ Goto("load_dataset")
    /\ UNCHANGED <<selection, picked, dataVars, trainVars, evalVars, pureVars>>

\* train_eval.py lines 228-231: load_dataset
LoadDataset ==
    /\ pc = "load_dataset"
    /\ dataset' = loaded
    /\ Goto("resolve_splits")
    /\ UNCHANGED <<pickVars, config, loaded, resolved, prepared,
                   trainVars, evalVars, pureVars>>

\* train_eval.py lines 232-247: split resolution
ResolveSplits ==
    /\ pc = "resolve_splits"
    /\ \E o \in SplitResolution(dataset, config) :
          IF o.raised # ""
          THEN Raise(o.raised) /\ UNCHANGED <<dataset, resolved>>
          ELSE dataset' = o.ds /\ resolved' = o.ds /\ Goto("truncate_train")
    /\ UNCHANGED <<pickVars, config, loaded, prepared, trainVars, evalVars, pureVars>>

\* train_eval.py lines 249-252
TruncateTrain ==
    /\ pc = "truncate_train"
    /\ LET o == Truncate(dataset, "train", config.max_train_samples)
       IN  IF o.raised # ""
           THEN Raise(o.raised) /\ UNCHANGED dataset
           ELSE dataset' = o.ds /\ Goto("truncate_validation")
    /\ UNCHANGED <<pickVars, config, loaded, resolved, prepared,
                   trainVars, evalVars, pureVars>>

\* train_eval.py lines 253-256
TruncateValidation ==
    /\ pc = "truncate_validation"
    /\ LET o == Truncate(dataset, "validation", config.max_test_samples)
       IN  IF o.raised # ""
           THEN Raise(o.raised) /\ UNCHANGED dataset
           ELSE dataset' = o.ds /\ Goto("preprocess_datasets")
    /\ UNCHANGED <<pickVars, config, loaded, resolved, prepared,
                   trainVars, evalVars, pureVars>>

\* train_eval.py lines 258-277: dataset["train"].column_names raises
\* KeyError without a "train" split.
Preprocess ==
    /\ pc = "preprocess_datasets"
    /\ IF {"train", "validation"} \subseteq DOMAIN dataset
       THEN /\ prepared' =
                 [train |-> MapRows(dataset["train"], picked.model_type),
                  validation |-> MapRows(dataset["validation"], picked.model_type)]
            /\ Goto("load_model")
       ELSE Raise("KeyError") /\ UNCHANGED prepared
    /\ UNCHANGED <<pickVars, config, loaded, dataset, resolved,
                   trainVars, evalVars, pureVars>>

(***************************************************************************)
(* pipeline.py line 131, train_eval.py train.                              *)
(***************************************************************************)
\* train_eval.py lines 287-291: the properties lookup and load_model
LoadModel ==
    /\ pc = "load_model"
    /\ LET p == PropertiesOf(to_string(picked))
       IN  IF p.raised # ""
           THEN Raise(p.raised) /\ UNCHANGED model
           ELSE model' = "base" /\ Goto("build_trainer")
    /\ UNCHANGED <<pickVars, dataVars, use_cache, saver_model, save_events,
                   train_return, stored, evalVars, pureVars>>

\* train_eval.py lines 292-305 (causal) and 309-317 (sequence-to-sequence):
\* the callback, the trainer and use_cache, up to the trainer.train() call
BuildTrainer ==
    /\ pc = "build_trainer"
    /\ saver_model' = SftPeftCallback_init
    /\ model' = TrainerModel(PropertiesOf(to_string(picked)).props.model_type, model)
    /\ use_cache' = UseCacheForTraining(use_cache)
    /\ Goto("training")
    /\ UNCHANGED <<pickVars, dataVars, save_events, train_return, stored,
                   evalVars, pureVars>>

\* A save event of the running trainer.  SftPeftCallback is among the
\* callbacks on the causal path only (line 303 against line 315).
OnSave ==
    /\ pc = "training"
    /\ Len(save_events) < MaxSaves
    /\ \E m \in SaveEventModels :
          /\ save_events' = Append(save_events, m)
          /\ saver_model' =
                IF PropertiesOf(to_string(picked)).props.model_type = "causal"
                THEN on_save(saver_model, m) ELSE saver_model
    /\ Goto("training")
    /\ UNCHANGED <<pickVars, dataVars, use_cache, train_return, stored, model,
                   evalVars, pureVars>>

\* trainer.train() returns; lines 307 and 320
TrainerReturns ==
    /\ pc = "training"
    /\ train_return' = TrainResult(PropertiesOf(to_string(picked)).props.model_type,
                                   model, saver_model)
    /\ Goto("store")
    /\ UNCHANGED <<pickVars, dataVars, use_cache, saver_model, save_events,
                   stored, model, evalVars, pureVars>>

\* trainer.train() raises (a trainer failure, out of memory)
TrainerRaises ==
    /\ pc = "training"
    /\ Raise("TrainingError")
    /\ UNCHANGED <<pickVars, dataVars, trainVars, evalVars, pureVars>>

\* pipeline.py line 77: StoredModel.store(model, storage_directory) saves
\* the model through its own save method, which None does not have
Store ==
    /\ pc = "store"
    /\ IF train_return = NoModel
       THEN Raise("AttributeError") /\ UNCHANGED stored
       ELSE stored' = train_return /\ Goto("eval")
    /\ UNCHANGED <<pickVars, dataVars, use_cache, saver_model, save_events,
                   train_return, model, evalVars, pureVars>>

(***************************************************************************)
(* pipeline.py eval, train_eval.py evaluate.                               *)
(***************************************************************************)
\* pipeline.py lines 132 and 86: evaluate(model.load(), eval_data, tokenizer)
Eval ==
    /\ pc = "eval"
    /\ IF Bind(evaluate_parameters, eval_arguments) = ""
       THEN /\ model' = stored
            /\ eval_dataset' = prepared.validation
            /\ model_type' = picked.model_type
            /\ Goto("breakpoint")
       ELSE /\ Raise(Bind(evaluate_parameters, eval_arguments))
            /\ UNCHANGED <<model, eval_dataset, model_type>>
    /\ UNCHANGED <<pickVars, dataVars, use_cache, saver_model, save_events,
                   train_return, stored, row_index, results, eval_return, failed_at,
                   pureVars>>

\* A caller's evaluate(model, eval_dataset, tokenizer, model_type)
CallEvaluate ==
    /\ pc = "evaluate"
    /\ IF Bind(evaluate_parameters, evaluate_parameters) = ""
       THEN Goto("breakpoint")
       ELSE Raise(Bind(evaluate_parameters, evaluate_parameters))
    /\ UNCHANGED <<pickVars, dataVars, trainVars, evalVars, pureVars>>

\* Line 337: pdb.set_trace(); the operator continues,
BreakpointContinue ==
    /\ pc = "breakpoint"
    /\ Goto("begin")
    /\ UNCHANGED <<pickVars, dataVars, trainVars, evalVars, pureVars>>

\* or quits the debugger (as does a closed standard input).
BreakpointQuit ==
    /\ pc = "breakpoint"
    /\ Raise("BdbQuit")
    /\ UNCHANGED <<pickVars, dataVars, trainVars, evalVars, pureVars>>

\* Lines 338-357
EvalBegin ==
    /\ pc = "begin"
    /\ results' = << >>
    /\ row_index' = 0
    /\ use_cache' = UseCacheForGeneration(use_cache)
    /\ IF model_type = "seq_to_seq" \/ MapExtractPrompt(eval_dataset) = ""
       THEN Goto("loop")
       ELSE Raise(MapExtractPrompt(eval_dataset))
    /\ UNCHANGED <<pickVars, dataVars, saver_model, save_events, train_return,
                   stored, model, model_type, eval_dataset, eval_return,
                   failed_at, pureVars>>

\* Lines 359-365: the next row of eval_dataset.iter(batch_size=1), up to
\* the model.generate call
BeginGenerate ==
    /\ pc = "loop"
    /\ row_index < Len(eval_dataset)
    /\ Goto("generate")
    /\ UNCHANGED <<pickVars, dataVars, trainVars, evalVars, pureVars>>

\* Lines 365-371: generate returns; decode, sanitize, append
GenerateReturns ==
    /\ pc = "generate"
    /\ \E output_text \in GeneratedTexts :
          results' = Append(results,
              PromptResponse(PromptText(eval_dataset[row_index + 1]), output_text))
    /\ row_index' = row_index + 1
    /\ Goto("loop")
    /\ UNCHANGED <<pickVars, dataVars, trainVars, model_type, eval_dataset,
                   eval_return, failed_at, pureVars>>

\* A loop that catches the exception and goes on with the next row.
OnGenerateError_Skip(k) == [pc |-> "loop", next_row |-> k + 1]

\* Lines 359-371 hold no try: an exception of generate or of batch_decode
\* at row k leaves evaluate.
OnGenerateError(k) == [pc |-> "raised", next_row |-> k]

\* Line 365 or 366: generate (or decoding its output) raises
GenerateRaises ==
    /\ pc = "generate"
    /\ failed_at' = row_index
    /\ pc' = OnGenerateError(row_index).pc
    /\ row_index' = OnGenerateError(row_index).next_row
    /\ error' = IF OnGenerateError(row_index).pc = "raised" THEN "GenerationError" ELSE error
    /\ entry' = entry
    /\ UNCHANGED <<pickVars, dataVars, trainVars, model_type, eval_dataset,
                   results, eval_return, pureVars>>

\* Lines 372-373: the loop is exhausted
EvalReturns ==
    /\ pc = "loop"
    /\ row_index = Len(eval_dataset)
    /\ eval_return' = [returned |-> TRUE, continuations |-> results]
    /\ Goto("returned")
    /\ UNCHANGED <<pickVars, dataVars, trainVars, model_type, eval_dataset,
                   row_index, results, failed_at, pureVars>>

(***************************************************************************)
(* The directly called functions.                                          *)
(***************************************************************************)
\* train_eval.py lines 323-328
ExtractPrompt ==
    /\ pc = "extract_prompt"
    /\ IF extract_prompt(text).raised # ""
       THEN Raise(extract_prompt(text).raised) /\ UNCHANGED prompt
       ELSE prompt' = extract_prompt(text).value /\ Goto("returned")
    /\ UNCHANGED <<pickVars, dataVars, trainVars, evalVars,
                   text, pad_token_id, batch, model_inputs>>

\* train_eval.py lines 210-220
Seq2SeqPreprocess ==
    /\ pc = "preprocess"
    /\ model_inputs' = [labels |-> MaskLabels(batch, pad_token_id)]
    /\ Goto("returned")
    /\ UNCHANGED <<pickVars, dataVars, trainVars, evalVars,
                   text, prompt, pad_token_id, batch>>

Next ==
    \/ PickModel \/ LoadTokenizer \/ LoadDataset \/ ResolveSplits
    \/ TruncateTrain \/ TruncateValidation \/ Preprocess
    \/ LoadModel \/ BuildTrainer \/ OnSave \/ TrainerReturns \/ TrainerRaises
    \/ Store \/ Eval \/ CallEvaluate
    \/ BreakpointContinue \/ BreakpointQuit \/ EvalBegin
    \/ BeginGenerate \/ GenerateReturns \/ GenerateRaises \/ EvalReturns
    \/ ExtractPrompt \/ Seq2SeqPreprocess

Spec == Init /\ [][Next]_vars

(***************************************************************************)
(* Properties.                                                             *)
(***************************************************************************)
Pipeline == entry = "pipeline"

\* pick_model has returned.
Picked == Pipeline /\ pc # "pick_model"

\* Split resolution has finished without raising.
Resolved == Pipeline /\ DOMAIN resolved # {}

\* Both truncations have finished without raising.
Truncated ==
    /\ Resolved
    /\ pc \notin {"truncate_train", "truncate_validation"}
    /\ error \notin {"IndexError", "KeyError"}

Family == PropertiesOf(to_string(picked)).props.model_type

\* train_eval.train has returned a value to pipeline.train.
TrainReturned ==
    /\ Pipeline
    /\ \/ pc \in {"store", "eval"}
       \/ pc = "raised" /\ error \in {"AttributeError", "TypeError"}

\* The errors of the libraries the evaluation calls into.
LibraryErrors == {"GenerationError", "BdbQuit"}

\* The evaluation stage of the pipeline has ended.
EvalStageEnded ==
    Pipeline /\ stored # NoModel /\ pc \in {"raised", "returned"}

\* C1: for every member of ModelSelection, pick_model returns a reference
\* and a family, _MODEL_PROPERTIES has an entry for the member, the family
\* equals that entry's model_type, and the family is seq_to_seq exactly when
\* the member's name starts with "flan", causal otherwise.
C1_ResolutionConsistent ==
    Picked =>
        /\ picked.owner # "" /\ picked.repo # ""
        /\ picked.model_type \in ModelType
        /\ selection \in DOMAIN _MODEL_PROPERTIES
        /\ picked.model_type = _MODEL_PROPERTIES[selection].model_type
        /\ picked.model_type = "seq_to_seq" <=> StartsWith(selection, "flan")
        /\ picked.model_type = "causal" <=> ~StartsWith(selection, "flan")

C1_Witness ==
    /\ Picked
    /\ selection = "gpt_j_6b"
    /\ picked = [owner |-> "tiiuae", repo |-> "gpt-j-6b", model_type |-> "causal"]

\* C2 (as claimed): extract_prompt returns for every text: the prefix up to
\* and including the first marker when the text contains the marker, the
\* text with the marker appended when it does not; it never raises.
C2_ExtractPromptTotal ==
    (entry = "extract_prompt" /\ pc # "extract_prompt") =>
        /\ pc = "returned"
        /\ prompt = IF Contains(text, _SUMMARY_START_INDICATOR)
                    THEN SubSeq(text, 1, Find(text, _SUMMARY_START_INDICATOR)
                                            + Len(_SUMMARY_START_INDICATOR))
                    ELSE text \o _SUMMARY_START_INDICATOR

\* C3 (as claimed): a pipeline run whose evaluation stage ends without a
\* library error has returned an EvaluationResults holding one entry per
\* validation row, the i-th made from the i-th row.
C3_PipelineEvaluationComplete ==
    (EvalStageEnded /\ error \notin LibraryErrors) =>
        /\ pc = "returned"
        /\ eval_return.returned
        /\ Len(eval_return.continuations) = Len(prepared.validation)
        /\ \A k \in 1..Len(prepared.validation) :
              eval_return.continuations[k].prompt
                  = sanitize(PromptText(prepared.validation[k]))

\* C4: after split resolution of a dataset without a "validation" split,
\* the splits are "train" and "validation" and never "test": with only
\* "train" loaded, "validation" is carved out of "train" in the proportion
\* test_size; with "train" and "test" loaded, "validation" is the loaded
\* "test" split and "train" is unchanged.
C4_SplitResolution ==
    (Resolved /\ "validation" \notin DOMAIN loaded /\ "train" \in DOMAIN loaded) =>
        /\ {"train", "validation"} \subseteq DOMAIN resolved
        /\ "test" \notin DOMAIN resolved
        /\ IF "test" \in DOMAIN loaded
           THEN /\ resolved["validation"] = loaded["test"]
                /\ resolved["train"] = loaded["train"]
           ELSE /\ Len(resolved["validation"])
                     = Ceil(TestSize(config).num * Len(loaded["train"]),
                            TestSize(config).den)
                /\ Len(resolved["train"]) + Len(resolved["validation"])
                     = Len(loaded["train"])
                /\ Range(resolved["train"]) \cup Range(resolved["validation"])
                     = Range(loaded["train"])
                /\ Range(resolved["train"]) \cap Range(resolved["validation"]) = {}

C4_Witness ==
    /\ Resolved
    /\ DOMAIN loaded = {"train"}
    /\ Len(loaded["train"]) = 3
    /\ Len(resolved["validation"]) = 1
    /\ Len(resolved["train"]) = 2

\* C5 (as claimed): a specified max_train_samples leaves "train" as its
\* first min(cap, size) examples and a specified max_test_samples leaves
\* "validation" as its first min(cap, size) examples, for every cap, and
\* no cap makes the call fail.
C5_TruncationAtMost ==
    (Pipeline /\ {"train", "validation"} \subseteq DOMAIN resolved) =>
        /\ error # "IndexError"
        /\ Truncated =>
              /\ ~IsNone(config.max_train_samples) =>
                    dataset["train"]
                        = Take(resolved["train"], Val(config.max_train_samples))
              /\ ~IsNone(config.max_test_samples) =>
                    dataset["validation"]
                        = Take(resolved["validation"], Val(config.max_test_samples))

\* C6: the labels of the sequence-to-sequence preprocessing differ from the
\* tokenizer's target ids only at padding: a position holding the pad id
\* holds -100, every other position holds its id unchanged.
C6_LabelMasking ==
    (entry = "seq_2_seq_preprocess" /\ pc = "returned") =>
        /\ Len(model_inputs.labels) = Len(batch)
        /\ \A r \in 1..Len(batch) :
              /\ Len(model_inputs.labels[r]) = Len(batch[r])
              /\ \A k \in 1..Len(batch[r]) :
                    /\ batch[r][k] = pad_token_id
                          => model_inputs.labels[r][k] = -100
                    /\ batch[r][k] # pad_token_id
                          => model_inputs.labels[r][k] = batch[r][k]

C6_Witness ==
    /\ entry = "seq_2_seq_preprocess" /\ pc = "returned"
    /\ \E r \in 1..Len(batch) : \E k, l \in 1..Len(batch[r]) :
          /\ batch[r][k] = pad_token_id /\ model_inputs.labels[r][k] = -100
          /\ batch[r][l] # pad_token_id /\ model_inputs.labels[r][l] = batch[r][l]

\* C7: when generation fails for a row, evaluate ends by raising the error
\* and returns no EvaluationResults: it neither goes on with the next row
\* nor returns the entries made before the failure.
C7_GenerationFailureAborts ==
    failed_at # -1 =>
        /\ pc = "raised"
        /\ error = "GenerationError"
        /\ row_index = failed_at
        /\ ~eval_return.returned

C7_Witness ==
    /\ failed_at = 1
    /\ Len(results) = 1
    /\ pc = "raised"
    /\ ~eval_return.returned

\* C8: on the causal path, when save events fired during training, train
\* returns the model passed to the last save event, not the base model.
C8_ReturnsLastSaved ==
    (TrainReturned /\ Family = "causal" /\ Len(save_events) > 0) =>
        /\ train_return = save_events[Len(save_events)]
        /\ train_return # "base"

C8_Witness ==
    /\ TrainReturned /\ Family = "causal"
    /\ save_events = <<"peft_a", "peft_b">>
    /\ train_return = "peft_b"

\* C9 (as claimed): on the causal path train never returns None: a training
\* call that returns without a save event makes train raise.
C9_NoSaveFailsFast ==
    (TrainReturned /\ Family = "causal") => train_return # NoModel

\* C10: use_cache is False when the training call starts and throughout it,
\* on both paths; in evaluate it is True before the first generate call and
\* during every generate call.
C10_UseCacheOrdering ==
    /\ pc = "training" => use_cache = FALSE
    /\ pc \in {"loop", "generate"} => use_cache = TRUE

C10_Witness ==
    /\ pc = "generate"
    /\ row_index = 1
    /\ use_cache = TRUE
====
